---- MODULE Spec2Model ----
(***************************************************************************)
(* Model of the stock monitor's background scheduler                       *)
(* (src/app/scheduler.py): check_all_subscriptions with its file-backed    *)
(* snapshot store (state/state_<hash>.json), its subscription file         *)
(* (subscriptions.json) and the e-mail notification it sends.  The result  *)
(* of check_stock_status (src/app/scraper.py) is an input of the scan      *)
(* step, drawn from the maps the product page can yield.  One call of      *)
(* check_stock_status itself, with its browser session and the probing of  *)
(* each variant, is modelled beside it (SpecScan); what the page shows at  *)
(* each probe is an input of that step.                                    *)
(*                                                                         *)
(* Python dicts keep insertion order, so a dict is a sequence of           *)
(* <<key, value>> pairs with distinct keys.  Time stamps are kept relative *)
(* to the start of the running check: "before" it or "during" it.          *)
(***************************************************************************)
EXTENDS Integers, Sequences, FiniteSets, TLC

\* ------------------------------------------------------------------ bounds
\* Largest number of variants (colors, or color/size pairs) one scan yields.
MaxVariants == 2

Colors == {"Red", "Blue"}
\* The sizes the pages offer, in the order of size_order (scraper.py).
SizeOrder == <<"S", "M">>
Sizes == {SizeOrder[i] : i \in 1..Len(SizeOrder)}
\* u3 is a URL whose MD5 digest starts with the same 8 hex digits as u1's.
Urls == {"u1", "u2", "u3"}

\* The subscriptions of the subscription file, in file order.
SubOrder == <<"k1", "k2", "k3", "k4">>
SubKeys == {"k1", "k2", "k3", "k4"}
SubEmail == [k \in SubKeys |-> CASE k = "k1" -> "a" [] k = "k2" -> "b" [] k = "k3" -> "a"
                                  [] k = "k4" -> "c"]
SubUrl == [k \in SubKeys |-> CASE k = "k1" -> "u1" [] k = "k2" -> "u1" [] k = "k3" -> "u2"
                                [] k = "k4" -> "u3"]

\* ------------------------------------------------------- dicts as sequences
HasKey(d, k) == \E i \in 1..Len(d) : d[i][1] = k

\* d[k] for a key the dict holds.
Get(d, k) == d[CHOOSE i \in 1..Len(d) : d[i][1] = k][2]

\* d.get(k, {}) for a dict of dicts.
GetDict(d, k) == IF HasKey(d, k) THEN Get(d, k) ELSE <<>>

\* The sequences of 1..n distinct elements of S.
DistinctSeqs(S, n) ==
  UNION {{s \in [1..k -> S] : \A i, j \in 1..k : s[i] = s[j] => i = j} : k \in 1..n}

\* The dicts of at most n entries with keys in K and boolean values.
BoolDicts(K, n) ==
  UNION {{[i \in 1..Len(ks) |-> <<ks[i], bs[i]>>] : bs \in [1..Len(ks) -> BOOLEAN]} :
         ks \in DistinctSeqs(K, n)}

\* The size dicts of one color: get_all_sizes returns the sizes sorted by
\* their rank in size_order, and they are probed in that order.
SizeRank(size) == CHOOSE i \in 1..Len(SizeOrder) : SizeOrder[i] = size

SizeDicts(S, n) ==
  {d \in BoolDicts(S, n) :
     \A i, j \in 1..Len(d) : i < j => SizeRank(d[i][1]) < SizeRank(d[j][1])}

RECURSIVE NumVariants(_)
NumVariants(css) ==
  IF css = <<>> THEN 0 ELSE Len(Head(css)[2]) + NumVariants(Tail(css))

\* The color -> (size -> bool) dicts of at most n variants: every color that
\* was probed holds at least one size (scraper.py, check_stock_with_sizes).
SizedDicts(C, S, n) ==
  {<<>>} \cup
  {css \in UNION {{[i \in 1..Len(cs) |-> <<cs[i], ds[i]>>] :
                     ds \in [1..Len(cs) -> SizeDicts(S, n)]} :
                  cs \in DistinctSeqs(C, n)} : NumVariants(css) <= n}

\* --------------------------------------------------------- scan results
\* check_stock_status returns (stock_data, has_sizes, product_name); on any
\* failure, and when no color is found, (None, None, None).
NoScan == [ok |-> FALSE, has_sizes |-> FALSE, color_stock |-> <<>>, color_size_stock |-> <<>>]

ScanResults(pg) ==
  {NoScan}
  \cup {[ok |-> TRUE, has_sizes |-> FALSE, color_stock |-> d, color_size_stock |-> <<>>] :
          d \in BoolDicts(pg.colors, MaxVariants)}
  \cup (IF pg.sizes = {} THEN {}
        ELSE {[ok |-> TRUE, has_sizes |-> TRUE, color_stock |-> <<>>, color_size_stock |-> d] :
                d \in SizedDicts(pg.colors, pg.sizes, MaxVariants)})

\* ------------------------------------------------------ the snapshot store
\* md5(product_url).hexdigest()[:8]: the first 8 hex digits of the digest, which
\* differ for the two monitored URLs.
UrlHash == [u \in Urls |-> CASE u = "u1" -> "h1" [] u = "u2" -> "h2" [] u = "u3" -> "h1"]

get_state_file_path(product_url) == UrlHash[product_url]

StatePaths == {get_state_file_path(u) : u \in Urls}

\* A state file: which keys its JSON object holds, and their values.
NoFile == [exists |-> FALSE, keys |-> {}, has_sizes |-> FALSE,
           color_stock |-> <<>>, color_size_stock |-> <<>>, last_checked |-> "None"]

\* The dict load_state returns when the product has no state file.
EmptyState == [exists |-> TRUE, keys |-> {"color_stock", "color_size_stock"}, has_sizes |-> FALSE,
               color_stock |-> <<>>, color_size_stock |-> <<>>, last_checked |-> "None"]

load_state(files, state_file) ==
  IF files[state_file].exists THEN files[state_file] ELSE EmptyState

\* previous_state.get('color_stock', {}) and .get('color_size_stock', {}).
StateGet(state, key) ==
  IF key \in state.keys
  THEN (IF key = "color_stock" THEN state.color_stock ELSE state.color_size_stock)
  ELSE <<>>

\* save_state that updates the state file it finds: the map passed replaces
\* the one of its shape, a map of the other shape stays in the file.
save_state_merge(files, state_file, has_sizes, stock_data) ==
  [files EXCEPT ![state_file] =
     [exists |-> TRUE,
      keys |-> files[state_file].keys
                 \cup (IF has_sizes THEN {"color_size_stock"} ELSE {"color_stock"}),
      has_sizes |-> has_sizes,
      color_stock |-> IF has_sizes THEN files[state_file].color_stock ELSE stock_data,
      color_size_stock |-> IF has_sizes THEN stock_data
                           ELSE files[state_file].color_size_stock,
      last_checked |-> "during"]]

\* save_state that leaves the map of an existing state file of the same shape
\* as it is and only refreshes last_checked.
save_state_keep(files, state_file, has_sizes, stock_data) ==
  IF files[state_file].exists /\ files[state_file].has_sizes = has_sizes
  THEN [files EXCEPT ![state_file].last_checked = "during"]
  ELSE [files EXCEPT ![state_file] =
          [exists |-> TRUE,
           keys |-> IF has_sizes THEN {"color_size_stock"} ELSE {"color_stock"},
           has_sizes |-> has_sizes,
           color_stock |-> IF has_sizes THEN <<>> ELSE stock_data,
           color_size_stock |-> IF has_sizes THEN stock_data ELSE <<>>,
           last_checked |-> "during"]]

\* save_state at its two call sites: the JSON object written replaces the whole
\* file and holds last_checked, product_name, has_sizes and the one map passed.
save_state(files, state_file, has_sizes, stock_data) ==
  [files EXCEPT ![state_file] =
     [exists |-> TRUE,
      keys |-> IF has_sizes THEN {"color_size_stock"} ELSE {"color_stock"},
      has_sizes |-> has_sizes,
      color_stock |-> IF has_sizes THEN <<>> ELSE stock_data,
      color_size_stock |-> IF has_sizes THEN stock_data ELSE <<>>,
      last_checked |-> "during"]]

\* ------------------------------------------------------------- the diff
NoChanges == [back_in_stock |-> <<>>, out_of_stock |-> <<>>]

\* The comparison with the variant put at the front of its list.
ComparePrepend(acc, has_prev, was_in_stock, is_in_stock, color, size) ==
  IF has_prev
  THEN IF ~was_in_stock /\ is_in_stock
       THEN [acc EXCEPT !.back_in_stock = <<<<color, size>>>> \o @]
       ELSE IF was_in_stock /\ ~is_in_stock
            THEN [acc EXCEPT !.out_of_stock = <<<<color, size>>>> \o @]
            ELSE acc
  ELSE acc

\* The comparison with a missing previous value read as "was out of stock".
CompareNoBaseline(acc, has_prev, was_in_stock, is_in_stock, color, size) ==
  IF ~(has_prev /\ was_in_stock) /\ is_in_stock
  THEN [acc EXCEPT !.back_in_stock = Append(@, <<color, size>>)]
  ELSE IF has_prev /\ was_in_stock /\ ~is_in_stock
       THEN [acc EXCEPT !.out_of_stock = Append(@, <<color, size>>)]
       ELSE acc

\* One pass of the inner comparison (scheduler.py lines 198-202, 211-215) for
\* the variant <<color, size>>; was_in_stock is read only when the key exists.
Compare(acc, has_prev, was_in_stock, is_in_stock, color, size) ==
  IF has_prev
  THEN IF ~was_in_stock /\ is_in_stock
       THEN [acc EXCEPT !.back_in_stock = Append(@, <<color, size>>)]
       ELSE IF was_in_stock /\ ~is_in_stock
            THEN [acc EXCEPT !.out_of_stock = Append(@, <<color, size>>)]
            ELSE acc
  ELSE acc

\* for size, is_in_stock in sizes_stock.items(), from entry j on.
RECURSIVE DiffSizes(_, _, _, _, _)
DiffSizes(color, sizes_stock, prev_sizes, j, acc) ==
  IF j > Len(sizes_stock) THEN acc
  ELSE LET size == sizes_stock[j][1]
           is_in_stock == sizes_stock[j][2]
           has_prev == HasKey(prev_sizes, size)
           was_in_stock == IF has_prev THEN Get(prev_sizes, size) ELSE FALSE
       IN DiffSizes(color, sizes_stock, prev_sizes, j + 1,
                    Compare(acc, has_prev, was_in_stock, is_in_stock, color, size))

\* for color, sizes_stock in stock_data.items(), from entry i on.
RECURSIVE DiffWithSizes(_, _, _, _)
DiffWithSizes(stock_data, previous, i, acc) ==
  IF i > Len(stock_data) THEN acc
  ELSE LET color == stock_data[i][1]
           sizes_stock == stock_data[i][2]
           prev_sizes == GetDict(previous, color)
       IN DiffWithSizes(stock_data, previous, i + 1,
                        DiffSizes(color, sizes_stock, prev_sizes, 1, acc))

\* The colors-only loop that lists every color now in stock as back in stock,
\* whatever it was before.
RECURSIVE DiffColorsOnlyAnyInStock(_, _, _, _)
DiffColorsOnlyAnyInStock(stock_data, previous, i, acc) ==
  IF i > Len(stock_data) THEN acc
  ELSE LET color == stock_data[i][1]
           is_in_stock == stock_data[i][2]
           has_prev == HasKey(previous, color)
       IN DiffColorsOnlyAnyInStock(stock_data, previous, i + 1,
            Compare(acc, has_prev, FALSE, is_in_stock, color, "None"))

\* for color, is_in_stock in stock_data.items(), from entry i on.
RECURSIVE DiffColorsOnly(_, _, _, _)
DiffColorsOnly(stock_data, previous, i, acc) ==
  IF i > Len(stock_data) THEN acc
  ELSE LET color == stock_data[i][1]
           is_in_stock == stock_data[i][2]
           has_prev == HasKey(previous, color)
           was_in_stock == IF has_prev THEN Get(previous, color) ELSE FALSE
       IN DiffColorsOnly(stock_data, previous, i + 1,
                         Compare(acc, has_prev, was_in_stock, is_in_stock, color, "None"))

\* "Determine stock changes": the two lists for a scan and the loaded state.
StockChanges(scan, previous_state) ==
  IF scan.has_sizes
  THEN DiffWithSizes(scan.color_size_stock, StateGet(previous_state, "color_size_stock"), 1, NoChanges)
  ELSE DiffColorsOnly(scan.color_stock, StateGet(previous_state, "color_stock"), 1, NoChanges)

\* -------------------------------------------------------- subscriptions
\* get_subscription_key(email, product_url): md5 of "email:product_url", the
\* key under which the subscription file holds that subscription.
get_subscription_key(email, product_url) ==
  CHOOSE k \in SubKeys : SubEmail[k] = email /\ SubUrl[k] = product_url

\* active_subs that keeps every verified subscription, deactivated or not.
ActiveSubsVerified(subs) ==
  SelectSeq(SubOrder, LAMBDA k : subs[k].verified)

\* active_subs: the keys of the verified, active subscriptions, in file order.
ActiveSubs(subs) ==
  SelectSeq(SubOrder, LAMBDA k : subs[k].verified /\ subs[k].active)

\* "Group subscriptions by product URL": products, a dict url -> list of
\* subscriptions, built over active_subs from entry i on.
RECURSIVE GroupByUrl(_, _, _, _)
GroupByUrl(subs, active, i, products) ==
  IF i > Len(active) THEN products
  ELSE LET product_url == subs[active[i]].product_url
           with_url == IF HasKey(products, product_url) THEN products
                       ELSE Append(products, <<product_url, <<>>>>)
           at == CHOOSE n \in 1..Len(with_url) : with_url[n][1] = product_url
       IN GroupByUrl(subs, active, i + 1,
                     [with_url EXCEPT ![at] = <<product_url, Append(@[2], active[i])>>])

\* Time passes: what was written during the last check is now before this one.
Older(t) == IF t = "during" THEN "before" ELSE t

\* ------------------------------------------------------------------ state
VARIABLES
  subscriptions_file,  \* subscriptions.json: key -> subscription
  state_files,         \* state/state_<hash>.json: path -> state file
  stock_history,       \* the stock_history table (db.py, save_stock_history)
  page,                \* per URL, the colors and sizes the product page offers
  pc,                  \* position of check_all_subscriptions: "idle" before
                       \* its first call, "done" after it returned
  subscriptions,       \* its local: the subscriptions as loaded
  products,            \* its local: url -> subscribers, as <<url, keys>> pairs
  pi,                  \* index of the product being checked
  scan,                \* stock_data, has_sizes of the current product
  previous_state,      \* the loaded state of the current product
  changes,             \* back_in_stock and out_of_stock of the current product
  si,                  \* index of the subscriber being notified
  calls,               \* the send_stock_notification calls of this product's check
  scanned,             \* per URL, the check_stock_status calls of this check
  outcome,             \* per URL, how its processing ended in this check:
                       \* "none", "no_data", "state_error", "no_change",
                       \* "notified" or "subs_error"
  tracked,             \* one reported flip that is being followed
  reported_again,      \* whether a followed flip was reported a second time
  owner                \* per state file, the URL whose check wrote it last

\* check_stock_status (scraper.py) and the browser session it drives.
VARIABLES
  spc,                 \* position of check_stock_status: "idle" before the
                       \* call, "returned" once control is back at the caller
  driver,              \* the browser session: "none", "open" or "quit"
  quits,               \* the driver.quit() calls of this call
  colors,              \* its local: the colors get_all_colors returned
  sizes,               \* its local: the sizes get_all_sizes returned for the page
  ci,                  \* index of the color being probed
  current_sizes,       \* check_stock_with_sizes: the sizes of the selected color
  sj,                  \* index of the size being probed
  stock,               \* colors_stock or color_size_stock as built so far
  ret,                 \* the value of the return statement that was executed
  log                  \* what was done to the page, in order

scraper_vars == <<spc, driver, quits, colors, sizes, ci, current_sizes, sj, stock,
                  ret, log>>

\* What one call of get_all_colors, get_all_sizes or check_button_for_stock
\* reads from the page, and the call made.
VARIABLES
  called,              \* the function that was called, "none" before the call
  color_page,          \* which color selector the page has, and the aria-label
                       \* of each li it matches
  size_buttons,        \* whether the size list appears within the wait, and
                       \* data-size-value of each button[data-size-value]
  radio_texts,         \* text of each button[role='radio'], once it is read
  buttons,             \* the buttons of the page, in the order of find_elements
  button_status        \* what check_button_for_stock returned

page_vars == <<called, color_page, size_buttons, radio_texts, buttons, button_status>>

vars == <<subscriptions_file, state_files, stock_history, page, pc, subscriptions,
          products, pi, scan, previous_state, changes, si, calls, scanned, outcome,
          tracked, reported_again, owner, scraper_vars, page_vars>>

NoSubscriptions == <<>>
\* No flip is followed at the moment; no flip is followed at all in this run.
NoTrack == [on |-> FALSE, email |-> "", url |-> "", variant |-> <<"", "">>, to |-> FALSE]
NotFollowing == [on |-> FALSE, email |-> "off", url |-> "", variant |-> <<"", "">>, to |-> FALSE]

RichPage == [colors |-> Colors, sizes |-> Sizes]
PlainPage == [colors |-> {"Red"}, sizes |-> {}]

Subscription(k, verified, active) ==
  [email |-> SubEmail[k], product_url |-> SubUrl[k], verified |-> verified,
   active |-> active, last_notified |-> "None"]

\* Nothing read from a page yet.
NoPageRead ==
  /\ color_page = [found |-> "none", items |-> <<>>]
  /\ size_buttons = [found |-> FALSE, values |-> <<>>]
  /\ radio_texts = <<>>
  /\ buttons = <<>>
  /\ button_status = "None"

InitLocals ==
  /\ state_files = [f \in StatePaths |-> NoFile]
  /\ stock_history = <<>>
  /\ pc = "idle"
  /\ subscriptions = NoSubscriptions
  /\ products = <<>>
  /\ pi = 0
  /\ scan = NoScan
  /\ previous_state = EmptyState
  /\ changes = NoChanges
  /\ si = 0
  /\ calls = <<>>
  /\ scanned = [u \in Urls |-> 0]
  /\ outcome = [u \in Urls |-> "none"]
  /\ reported_again = FALSE
  /\ owner = [f \in StatePaths |-> "none"]
  /\ spc = "idle"
  /\ driver = "none"
  /\ quits = 0
  /\ colors = <<>>
  /\ sizes = <<>>
  /\ ci = 0
  /\ current_sizes = <<>>
  /\ sj = 0
  /\ stock = <<>>
  /\ ret = NoScan
  /\ log = <<>>

\* The subscriptions of u1 and u2 verified and active, the one of u3 not yet
\* verified; u1 is a product with colors and sizes.
Init ==
  /\ subscriptions_file = [k \in SubKeys |-> Subscription(k, k # "k4", TRUE)]
  /\ page = [u \in Urls |-> IF u = "u1" THEN RichPage ELSE PlainPage]
  /\ tracked = NotFollowing
  /\ InitLocals
  /\ called = "none"
  /\ NoPageRead

\* Any mix of verified, unverified and deactivated subscriptions.
InitSubs ==
  /\ \E v, a \in [SubKeys -> BOOLEAN] :
       subscriptions_file = [k \in SubKeys |-> Subscription(k, v[k], a[k])]
  /\ page = [u \in Urls |-> PlainPage]
  /\ tracked = NotFollowing
  /\ InitLocals
  /\ called = "none"
  /\ NoPageRead

\* One subscriber of u1, whose reported flips are followed.
InitFollow ==
  /\ subscriptions_file = [k \in SubKeys |-> Subscription(k, k = "k1", TRUE)]
  /\ page = [u \in Urls |-> IF u = "u1" THEN RichPage ELSE PlainPage]
  /\ tracked = NoTrack
  /\ InitLocals
  /\ called = "none"
  /\ NoPageRead

\* One subscriber of u1 and one of u3, the two URLs with one state file.
InitCollide ==
  /\ subscriptions_file = [k \in SubKeys |-> Subscription(k, k \in {"k1", "k4"}, TRUE)]
  /\ page = [u \in Urls |-> PlainPage]
  /\ tracked = NotFollowing
  /\ InitLocals
  /\ called = "none"
  /\ NoPageRead

\* ------------------------------------------------------- the current product
product_url == products[pi][1]
subs == products[pi][2]
state_file == get_state_file_path(product_url)

\* End of one pass of "for product_url, subs in products.items()": the next
\* product, or the end of the check.
NextProduct ==
  /\ scan' = NoScan
  /\ previous_state' = EmptyState
  /\ changes' = NoChanges
  /\ si' = 0
  /\ IF pi < Len(products)
     THEN /\ pi' = pi + 1
          /\ pc' = "scan"
          /\ UNCHANGED <<products, subscriptions>>
     ELSE /\ pi' = 0
          /\ pc' = "done"
          /\ products' = <<>>
          /\ subscriptions' = NoSubscriptions

\* ---------------------------------------------------------------- helpers
Range(q) == {q[i] : i \in 1..Len(q)}

\* The variants of a scan with their values, colors first, then sizes within
\* a color: <<<<color, size>>, in_stock>>, size "None" without sizes.
RECURSIVE FlatSized(_)
FlatSized(css) ==
  IF css = <<>> THEN <<>>
  ELSE [j \in 1..Len(Head(css)[2]) |-> <<<<Head(css)[1], Head(css)[2][j][1]>>, Head(css)[2][j][2]>>]
       \o FlatSized(Tail(css))

Flat(has_sizes, color_stock, color_size_stock) ==
  IF has_sizes THEN FlatSized(color_size_stock)
  ELSE [i \in 1..Len(color_stock) |-> <<<<color_stock[i][1], "None">>, color_stock[i][2]>>]

\* -------------------------------------------------------------- the check
\* Lines 147-169: load the subscriptions, keep the verified and active ones,
\* group them by product URL; return when there is none.
StartRun ==
  /\ pc \in {"idle", "done"}
  /\ LET file == [k \in SubKeys |->
                    [subscriptions_file[k] EXCEPT !.last_notified = Older(@)]]
         active == ActiveSubs(file)
     IN /\ subscriptions_file' = file
        /\ state_files' = [f \in StatePaths |->
                             [state_files[f] EXCEPT !.last_checked = Older(@)]]
        /\ scanned' = [u \in Urls |-> 0]
        /\ outcome' = [u \in Urls |-> "none"]
        /\ calls' = <<>>
        /\ stock_history' = [i \in 1..Len(stock_history) |->
                               [stock_history[i] EXCEPT !.came_back_in_stock_at = Older(@)]]
        /\ IF active = <<>>
           THEN /\ pc' = "done"
                /\ UNCHANGED <<subscriptions, products, pi>>
           ELSE /\ pc' = "scan"
                /\ subscriptions' = file
                /\ products' = GroupByUrl(file, active, 1, <<>>)
                /\ pi' = 1
  /\ UNCHANGED page_vars
  /\ UNCHANGED <<scraper_vars, owner, page, scan, previous_state, changes, si, tracked,
                 reported_again>>

\* A followed flip ends when a scan that returned data shows the variant with
\* the other value: its availability has flipped again.
Follow(track, url, result) ==
  LET flat == Flat(result.has_sizes, result.color_stock, result.color_size_stock)
  IN IF /\ track.on
        /\ track.url = url
        /\ \E i \in 1..Len(flat) : flat[i][1] = track.variant /\ flat[i][2] # track.to
     THEN NoTrack ELSE track

\* Lines 178-182: check_stock_status returned data.
Scan ==
  /\ pc = "scan"
  /\ \E result \in ScanResults(page[product_url]) :
       /\ result.ok
       /\ scan' = result
       /\ tracked' = Follow(tracked, product_url, result)
  /\ scanned' = [scanned EXCEPT ![product_url] = @ + 1]
  /\ calls' = <<>>
  /\ pc' = "diff"
  /\ UNCHANGED page_vars
  /\ UNCHANGED <<scraper_vars, owner, subscriptions_file, state_files, stock_history,
                 page, subscriptions, products, pi, previous_state, changes, si, outcome,
                 reported_again>>

\* The no-data branch that still stamps the state file with the check time.
ScanFailsStamp ==
  /\ pc = "scan"
  /\ scanned' = [scanned EXCEPT ![product_url] = @ + 1]
  /\ calls' = <<>>
  /\ outcome' = [outcome EXCEPT ![product_url] = "no_data"]
  /\ state_files' = [state_files EXCEPT ![state_file].last_checked = "during"]
  /\ NextProduct
  /\ UNCHANGED page_vars
  /\ UNCHANGED <<scraper_vars, owner, subscriptions_file, stock_history, page, tracked,
                 reported_again>>

\* Lines 178-182: check_stock_status returned (None, None, None): continue.
ScanFails ==
  /\ pc = "scan"
  /\ scanned' = [scanned EXCEPT ![product_url] = @ + 1]
  /\ calls' = <<>>
  /\ outcome' = [outcome EXCEPT ![product_url] = "no_data"]
  /\ NextProduct
  /\ UNCHANGED page_vars
  /\ UNCHANGED <<scraper_vars, owner, subscriptions_file, state_files, stock_history,
                 page, tracked, reported_again>>

\* The diff that saves the new state at once only when there is nothing to
\* dispatch, and otherwise goes on to the dispatch with the state not saved.
DiffThenDispatch ==
  /\ pc = "diff"
  /\ previous_state' = load_state(state_files, state_file)
  /\ changes' = StockChanges(scan, previous_state')
  /\ IF changes' = NoChanges
     THEN /\ state_files' = save_state(state_files, state_file, scan.has_sizes,
                                       IF scan.has_sizes THEN scan.color_size_stock
                                       ELSE scan.color_stock)
          /\ owner' = [owner EXCEPT ![state_file] = product_url]
     ELSE UNCHANGED <<state_files, owner>>
  /\ pc' = "notify"
  /\ UNCHANGED page_vars
  /\ UNCHANGED <<scraper_vars, subscriptions_file, stock_history, page, subscriptions,
                 products, pi, scan, si, calls, scanned, outcome, tracked, reported_again>>

\* Lines 185-219: load the previous state, determine the stock changes, save
\* the new state.
DiffAndSave ==
  /\ pc = "diff"
  /\ previous_state' = load_state(state_files, state_file)
  /\ changes' = StockChanges(scan, previous_state')
  /\ state_files' = save_state(state_files, state_file, scan.has_sizes,
                               IF scan.has_sizes THEN scan.color_size_stock
                               ELSE scan.color_stock)
  /\ owner' = [owner EXCEPT ![state_file] = product_url]
  /\ pc' = "notify"
  /\ UNCHANGED page_vars
  /\ UNCHANGED <<scraper_vars, subscriptions_file, stock_history, page, subscriptions,
                 products, pi, scan, si, calls, scanned, outcome, tracked, reported_again>>

\* A failed state-file read that ends the whole run instead of the product.
LoadStateFailsAborts ==
  /\ pc = "diff"
  /\ outcome' = [outcome EXCEPT ![product_url] = "state_error"]
  /\ scan' = NoScan
  /\ previous_state' = EmptyState
  /\ changes' = NoChanges
  /\ si' = 0
  /\ pi' = 0
  /\ pc' = "done"
  /\ products' = <<>>
  /\ subscriptions' = NoSubscriptions
  /\ UNCHANGED page_vars
  /\ UNCHANGED <<scraper_vars, owner, subscriptions_file, state_files, stock_history,
                 page, calls, scanned, tracked, reported_again>>

\* Line 186 raises (the state file cannot be read): lines 241-245, continue.
LoadStateFails ==
  /\ pc = "diff"
  /\ outcome' = [outcome EXCEPT ![product_url] = "state_error"]
  /\ NextProduct
  /\ UNCHANGED page_vars
  /\ UNCHANGED <<scraper_vars, owner, subscriptions_file, state_files, stock_history,
                 page, calls, scanned, tracked, reported_again>>

\* A failed state-file write that is only logged: the diff's lists go on to
\* the dispatch.
SaveStateFailsLogged ==
  /\ pc = "diff"
  /\ previous_state' = load_state(state_files, state_file)
  /\ changes' = StockChanges(scan, previous_state')
  /\ outcome' = [outcome EXCEPT ![product_url] = "state_error"]
  /\ pc' = "notify"
  /\ UNCHANGED page_vars
  /\ UNCHANGED <<scraper_vars, owner, subscriptions_file, state_files, stock_history,
                 page, subscriptions, products, pi, scan, si, calls, scanned, tracked,
                 reported_again>>

\* Line 205 or 218 raises (the state file cannot be written), after the diff:
\* lines 241-245, continue.
SaveStateFails ==
  /\ pc = "diff"
  /\ outcome' = [outcome EXCEPT ![product_url] = "state_error"]
  /\ NextProduct
  /\ UNCHANGED page_vars
  /\ UNCHANGED <<scraper_vars, owner, subscriptions_file, state_files, stock_history,
                 page, calls, scanned, tracked, reported_again>>

\* Lines 222, 238-239: "if back_in_stock or out_of_stock".
Notify ==
  /\ pc = "notify"
  /\ IF changes.back_in_stock # <<>> \/ changes.out_of_stock # <<>>
     THEN /\ pc' = "send"
          /\ si' = 1
          /\ UNCHANGED <<subscriptions, products, pi, scan, previous_state, changes,
                         outcome>>
     ELSE /\ outcome' = [outcome EXCEPT ![product_url] = "no_change"]
          /\ NextProduct
  /\ UNCHANGED page_vars
  /\ UNCHANGED <<scraper_vars, owner, subscriptions_file, state_files, stock_history,
                 page, calls, scanned, tracked, reported_again>>

\* Whether a call with these lists reports the followed flip to its subscriber.
Repeats(track, email, url, lists) ==
  /\ track.on
  /\ track.email = email
  /\ track.url = url
  /\ track.variant \in Range(IF track.to THEN lists.back_in_stock ELSE lists.out_of_stock)

\* The flips a call carries, as things to follow.
Carried(email, url, lists) ==
  {[on |-> TRUE, email |-> email, url |-> url, variant |-> v, to |-> TRUE] :
     v \in Range(lists.back_in_stock)}
  \cup {[on |-> TRUE, email |-> email, url |-> url, variant |-> v, to |-> FALSE] :
     v \in Range(lists.out_of_stock)}

\* After a call, the followed flip stays or one of the call's flips is taken.
FollowNext(track, email, url, lists) ==
  IF track = NotFollowing THEN {track} ELSE {track} \cup Carried(email, url, lists)

\* The pass of the send loop that leaves the loop after its first subscriber.
SendNotificationOnce(sent) ==
  /\ pc = "send"
  /\ LET sub == subscriptions[subs[si]]
     IN /\ calls' = Append(calls, [email |-> sub.email, product_url |-> product_url,
                                   back_in_stock |-> changes.back_in_stock,
                                   out_of_stock |-> changes.out_of_stock,
                                   sent |-> sent])
        /\ subscriptions' =
             [subscriptions EXCEPT ![subs[si]].last_notified = "during"]
        /\ reported_again' =
             (reported_again \/ Repeats(tracked, sub.email, product_url, changes))
        /\ tracked' \in FollowNext(tracked, sub.email, product_url, changes)
  /\ si' = 0
  /\ pc' = "save_subs"
  /\ UNCHANGED page_vars
  /\ UNCHANGED <<scraper_vars, owner, subscriptions_file, state_files, stock_history,
                 page, products, pi, scan, previous_state, changes, scanned, outcome>>

\* Lines 224-234, one pass of "for sub in subs": send_stock_notification
\* returns True (sent == TRUE) or False (credentials missing, SMTP error);
\* then last_notified is set and the subscription is put back.
SendNotification(sent) ==
  /\ pc = "send"
  /\ LET sub == subscriptions[subs[si]]
     IN /\ calls' = Append(calls, [email |-> sub.email, product_url |-> product_url,
                                   back_in_stock |-> changes.back_in_stock,
                                   out_of_stock |-> changes.out_of_stock,
                                   sent |-> sent])
        /\ subscriptions' =
             [subscriptions EXCEPT ![subs[si]].last_notified = "during",
                                   ![get_subscription_key(sub.email, product_url)] =
                                      [sub EXCEPT !.last_notified = "during"]]
        /\ reported_again' =
             (reported_again \/ Repeats(tracked, sub.email, product_url, changes))
        /\ tracked' \in FollowNext(tracked, sub.email, product_url, changes)
  /\ IF si < Len(subs)
     THEN si' = si + 1 /\ pc' = "send"
     ELSE si' = 0 /\ pc' = "save_subs"
  /\ UNCHANGED page_vars
  /\ UNCHANGED <<scraper_vars, owner, subscriptions_file, state_files, stock_history,
                 page, products, pi, scan, previous_state, changes, scanned, outcome>>

Send == \E sent \in BOOLEAN : SendNotification(sent)

\* Line 236: save_subscriptions writes the loaded subscriptions back.
SaveSubscriptions ==
  /\ pc = "save_subs"
  /\ subscriptions_file' = subscriptions
  /\ outcome' = [outcome EXCEPT ![product_url] = "notified"]
  /\ NextProduct
  /\ UNCHANGED page_vars
  /\ UNCHANGED <<scraper_vars, owner, state_files, stock_history, page, calls, scanned,
                 tracked, reported_again>>

\* Line 236 raises (the subscription file cannot be written): lines 241-245.
SaveSubscriptionsFails ==
  /\ pc = "save_subs"
  /\ outcome' = [outcome EXCEPT ![product_url] = "subs_error"]
  /\ NextProduct
  /\ UNCHANGED page_vars
  /\ UNCHANGED <<scraper_vars, owner, subscriptions_file, state_files, stock_history,
                 page, calls, scanned, tracked, reported_again>>

Next ==
  \/ StartRun
  \/ Scan
  \/ ScanFails
  \/ DiffAndSave
  \/ LoadStateFails
  \/ SaveStateFails
  \/ Notify
  \/ Send
  \/ SaveSubscriptions
  \/ SaveSubscriptionsFails

Spec == Init /\ [][Next]_vars

SpecSubs == InitSubs /\ [][Next]_vars

SpecFollow == InitFollow /\ [][Next]_vars

SpecCollide == InitCollide /\ [][Next]_vars

\* ------------------------------------------------- check_stock_status
\* Optional[bool] values: "True", "False" or "None".
Opt == {"True", "False", "None"}

\* "stock_status if stock_status is not None else False".
OrFalse(stock_status) == IF stock_status # "None" THEN stock_status ELSE "False"

\* What the page shows of a color's selector: whether the element is found,
\* whether its class holds 'no--stock', whether a child's class does.
ColorElements == [found : BOOLEAN, no_stock : BOOLEAN, child_no_stock : BOOLEAN]

\* What the page shows of a size button: found, class holds 'no--stock',
\* attribute disabled set.
SizeButtons == [found : BOOLEAN, no_stock : BOOLEAN, disabled : BOOLEAN]

\* Lines 139-162; an element that is not found raises, which yields None.
check_color_stock_by_class(el) ==
  IF ~el.found THEN "None"
  ELSE IF el.no_stock THEN "False"
  ELSE IF el.child_no_stock THEN "False"
  ELSE "None"

\* Lines 165-176; a button that is not found raises, which yields None.
check_size_stock_by_class(btn) ==
  IF ~btn.found THEN "None"
  ELSE IF btn.no_stock THEN "False"
  ELSE IF ~btn.disabled THEN "True"
  ELSE "None"

\* What get_all_colors can return: distinct colors in page order, or [].
ColorLists == {<<>>} \cup DistinctSeqs(Colors, Cardinality(Colors))

\* What get_all_sizes can return: distinct sizes sorted by size_order, or [].
SizeLists ==
  {<<>>} \cup {q \in DistinctSeqs(Sizes, Cardinality(Sizes)) :
                 \A i, j \in 1..Len(q) : i < j => SizeRank(q[i]) < SizeRank(q[j])}

\* One thing done to the page: op is "class" (a by-class check), "select"
\* (click_color_option of check_stock_with_sizes), "sizes" (get_all_sizes
\* after a selection), "click" (the click on the variant's own control) or
\* "button" (check_button_for_stock), or "error" (the except clause's
\* message); size is "None" for a color.
Event(op, color, size, no_stock, result) ==
  [op |-> op, color |-> color, size |-> size, no_stock |-> no_stock, result |-> result]

\* The return statements with data (lines 322-327).
Data(has_sizes, stock_data) ==
  [ok |-> TRUE, has_sizes |-> has_sizes,
   color_stock |-> IF has_sizes THEN <<>> ELSE stock_data,
   color_size_stock |-> IF has_sizes THEN stock_data ELSE <<>>]

\* The variables of the scheduler and its stores.
scheduler_vars == <<subscriptions_file, state_files, stock_history, page, pc,
                    subscriptions, products, pi, scan, previous_state, changes, si,
                    calls, scanned, outcome, tracked, reported_again, owner>>

\* Lines 298-300: setup_driver returned a driver.
SetupDriver ==
  /\ spc = "idle"
  /\ driver' = "open"
  /\ spc' = "load"
  /\ UNCHANGED <<scheduler_vars, page_vars>>
  /\ UNCHANGED <<quits, colors, sizes, ci, current_sizes, sj, stock, ret, log>>

\* Lines 298-300: setup_driver returned None: return None, None, None.
SetupDriverFails ==
  /\ spc = "idle"
  /\ ret' = NoScan
  /\ spc' = "returned"
  /\ UNCHANGED <<scheduler_vars, page_vars>>
  /\ UNCHANGED <<driver, quits, colors, sizes, ci, current_sizes, sj, stock, log>>

\* Lines 303-311: the page is loaded.
LoadPage ==
  /\ spc = "load"
  /\ spc' = "colors"
  /\ UNCHANGED <<scheduler_vars, page_vars>>
  /\ UNCHANGED <<driver, quits, colors, sizes, ci, current_sizes, sj, stock, ret, log>>

\* Lines 302-330: a statement of the try block raises; the except clause
\* prints the error and returns None, None, None.
InTry == {"load", "colors", "sizes", "pass1", "pass2", "color", "size"}

\* An exception that leaves check_stock_status at once.
RaisesUnwound ==
  /\ spc \in InTry
  /\ log' = Append(log, Event("error", "None", "None", FALSE, "None"))
  /\ ret' = NoScan
  /\ spc' = "returned"
  /\ UNCHANGED <<scheduler_vars, page_vars>>
  /\ UNCHANGED <<driver, quits, colors, sizes, ci, current_sizes, sj, stock>>

Raises ==
  /\ spc \in InTry
  /\ log' = Append(log, Event("error", "None", "None", FALSE, "None"))
  /\ ret' = NoScan
  /\ spc' = "finally"
  /\ UNCHANGED <<scheduler_vars, page_vars>>
  /\ UNCHANGED <<driver, quits, colors, sizes, ci, current_sizes, sj, stock>>

\* Lines 313-315: get_all_colors returned no color.
NoColors ==
  /\ spc = "colors"
  /\ colors' = <<>>
  /\ ret' = NoScan
  /\ spc' = "finally"
  /\ UNCHANGED <<scheduler_vars, page_vars>>
  /\ UNCHANGED <<driver, quits, sizes, ci, current_sizes, sj, stock, log>>

\* Line 313: get_all_colors returned colors.
GetColors ==
  /\ spc = "colors"
  /\ \E cs \in ColorLists \ {<<>>} : colors' = cs
  /\ spc' = "sizes"
  /\ UNCHANGED <<scheduler_vars, page_vars>>
  /\ UNCHANGED <<driver, quits, sizes, ci, current_sizes, sj, stock, ret, log>>

\* Lines 317-323: get_all_sizes for the page, has_sizes, and the entry of
\* check_stock_with_sizes or check_stock_colors_only.
GetSizes ==
  /\ spc = "sizes"
  /\ \E ss \in SizeLists :
       /\ sizes' = ss
       /\ spc' = IF Len(ss) > 0 THEN "color" ELSE "pass1"
  /\ ci' = 1
  /\ stock' = <<>>
  /\ UNCHANGED <<scheduler_vars, page_vars>>
  /\ UNCHANGED <<driver, quits, colors, current_sizes, sj, ret, log>>

\* Lines 248-251, one pass of the first "for color in colors".
ClassPass ==
  /\ spc = "pass1"
  /\ \E el \in ColorElements :
       LET color == colors[ci]
           stock_status == check_color_stock_by_class(el)
       IN /\ log' = Append(log, Event("class", color, "None",
                                      el.found /\ (el.no_stock \/ el.child_no_stock),
                                      stock_status))
          /\ stock' = IF stock_status # "None"
                      THEN Append(stock, <<color, stock_status>>) ELSE stock
  /\ IF ci < Len(colors) THEN ci' = ci + 1 /\ spc' = "pass1"
     ELSE ci' = 1 /\ spc' = "pass2"
  /\ UNCHANGED <<scheduler_vars, page_vars>>
  /\ UNCHANGED <<driver, quits, colors, sizes, current_sizes, sj, ret>>

\* The second loop's pass that probes the color whether or not the first
\* loop recorded it.
ClickPassAll ==
  /\ spc = "pass2"
  /\ LET color == colors[ci]
         rest == SelectSeq(stock, LAMBDA e : e[1] # color)
     IN \E clicked \in BOOLEAN, button \in Opt :
          /\ ~clicked => button = "None"
          /\ log' = IF clicked
                    THEN log \o <<Event("click", color, "None", FALSE, "True"),
                                  Event("button", color, "None", FALSE, button)>>
                    ELSE Append(log, Event("click", color, "None", FALSE, "False"))
          /\ stock' = Append(rest, <<color, IF clicked THEN OrFalse(button) ELSE "False">>)
  /\ IF ci < Len(colors)
     THEN ci' = ci + 1 /\ spc' = "pass2" /\ ret' = ret
     ELSE ci' = 0 /\ spc' = "finally" /\ ret' = Data(FALSE, stock')
  /\ UNCHANGED <<scheduler_vars, page_vars>>
  /\ UNCHANGED <<driver, quits, colors, sizes, current_sizes, sj>>

\* Lines 253-262, one pass of the second "for color in colors"; after the
\* last one, line 327: return stock_data, has_sizes, product_name.
ClickPass ==
  /\ spc = "pass2"
  /\ LET color == colors[ci]
     IN IF HasKey(stock, color)
        THEN UNCHANGED <<stock, log>>
        ELSE \E clicked \in BOOLEAN, button \in Opt :
               /\ ~clicked => button = "None"
               /\ log' = IF clicked
                         THEN log \o <<Event("click", color, "None", FALSE, "True"),
                                       Event("button", color, "None", FALSE, button)>>
                         ELSE Append(log, Event("click", color, "None", FALSE, "False"))
               /\ stock' = Append(stock, <<color, IF clicked THEN OrFalse(button)
                                                  ELSE "False">>)
  /\ IF ci < Len(colors)
     THEN ci' = ci + 1 /\ spc' = "pass2" /\ ret' = ret
     ELSE ci' = 0 /\ spc' = "finally" /\ ret' = Data(FALSE, stock')
  /\ UNCHANGED <<scheduler_vars, page_vars>>
  /\ UNCHANGED <<driver, quits, colors, sizes, current_sizes, sj>>

\* The end of one pass of "for color in colors" of check_stock_with_sizes:
\* the next color, or line 327.
NextColor ==
  IF ci < Len(colors)
  THEN ci' = ci + 1 /\ spc' = "color" /\ ret' = ret
  ELSE ci' = 0 /\ spc' = "finally" /\ ret' = Data(TRUE, stock')

\* The selection that takes the sizes of the page, check_stock_with_sizes'
\* parameter, instead of asking for the sizes of the selected color.
SelectColorPageSizes ==
  /\ spc = "color"
  /\ LET color == colors[ci]
     IN \E clicked \in BOOLEAN, cur \in SizeLists :
          /\ ~clicked => cur = <<>>
          /\ IF ~clicked
             THEN /\ log' = Append(log, Event("select", color, "None", FALSE, "False"))
                  /\ UNCHANGED <<stock, current_sizes, sj>>
                  /\ NextColor
             ELSE /\ log' = log \o <<Event("select", color, "None", FALSE, "True"),
                                     Event("sizes", color, "None", FALSE, cur)>>
                  /\ stock' = Append(stock, <<color, <<>>>>)
                  /\ current_sizes' = sizes
                  /\ sj' = 1
                  /\ spc' = "size"
                  /\ UNCHANGED <<ci, ret>>
  /\ UNCHANGED <<scheduler_vars, page_vars>>
  /\ UNCHANGED <<driver, quits, colors, sizes>>

\* Lines 270-281, one pass of "for color in colors" up to the size loop:
\* click the color, ask for its sizes, and with no size take the button.
SelectColor ==
  /\ spc = "color"
  /\ LET color == colors[ci]
     IN \E clicked \in BOOLEAN, cur \in SizeLists, button \in Opt :
          /\ ~clicked => cur = <<>>
          /\ (~clicked \/ cur # <<>>) => button = "None"
          /\ IF ~clicked
             THEN /\ log' = Append(log, Event("select", color, "None", FALSE, "False"))
                  /\ UNCHANGED <<stock, current_sizes, sj>>
                  /\ NextColor
             ELSE IF cur = <<>>
             THEN /\ log' = log \o <<Event("select", color, "None", FALSE, "True"),
                                     Event("sizes", color, "None", FALSE, cur),
                                     Event("button", color, "ALL", FALSE, button)>>
                  /\ stock' = Append(stock, <<color, <<<<"ALL", OrFalse(button)>>>>>>)
                  /\ UNCHANGED <<current_sizes, sj>>
                  /\ NextColor
             ELSE /\ log' = log \o <<Event("select", color, "None", FALSE, "True"),
                                     Event("sizes", color, "None", FALSE, cur)>>
                  /\ stock' = Append(stock, <<color, <<>>>>)
                  /\ current_sizes' = cur
                  /\ sj' = 1
                  /\ spc' = "size"
                  /\ UNCHANGED <<ci, ret>>
  /\ UNCHANGED <<scheduler_vars, page_vars>>
  /\ UNCHANGED <<driver, quits, colors, sizes>>

\* The pass of the size loop that stores stock_status as it is.
ProbeSizeRaw ==
  /\ spc = "size"
  /\ LET color == colors[ci]
         size == current_sizes[sj]
     IN \E btn \in SizeButtons, clicked \in BOOLEAN, button \in Opt :
          LET by_class == check_size_stock_by_class(btn)
              stock_status == IF by_class = "None" /\ clicked THEN button ELSE by_class
          IN /\ (by_class # "None" => ~clicked)
             /\ (~clicked => button = "None")
             /\ log' = log
                  \o <<Event("class", color, size, btn.found /\ btn.no_stock, by_class)>>
                  \o (IF by_class # "None" THEN <<>>
                      ELSE IF clicked
                      THEN <<Event("click", color, size, FALSE, "True"),
                             Event("button", color, size, FALSE, button)>>
                      ELSE <<Event("click", color, size, FALSE, "False")>>)
             /\ stock' = [stock EXCEPT ![Len(stock)][2] = Append(@, <<size, stock_status>>)]
  /\ IF sj < Len(current_sizes)
     THEN sj' = sj + 1 /\ UNCHANGED <<spc, ci, ret>>
     ELSE sj' = 0 /\ NextColor
  /\ UNCHANGED <<scheduler_vars, page_vars>>
  /\ UNCHANGED <<driver, quits, colors, sizes, current_sizes>>

\* Lines 282-288, one pass of "for size in current_sizes".
ProbeSize ==
  /\ spc = "size"
  /\ LET color == colors[ci]
         size == current_sizes[sj]
     IN \E btn \in SizeButtons, clicked \in BOOLEAN, button \in Opt :
          LET by_class == check_size_stock_by_class(btn)
              stock_status == IF by_class = "None" /\ clicked THEN button ELSE by_class
          IN /\ (by_class # "None" => ~clicked)
             /\ (~clicked => button = "None")
             /\ log' = log
                  \o <<Event("class", color, size, btn.found /\ btn.no_stock, by_class)>>
                  \o (IF by_class # "None" THEN <<>>
                      ELSE IF clicked
                      THEN <<Event("click", color, size, FALSE, "True"),
                             Event("button", color, size, FALSE, button)>>
                      ELSE <<Event("click", color, size, FALSE, "False")>>)
             /\ stock' = [stock EXCEPT ![Len(stock)][2] =
                            Append(@, <<size, OrFalse(stock_status)>>)]
  /\ IF sj < Len(current_sizes)
     THEN sj' = sj + 1 /\ UNCHANGED <<spc, ci, ret>>
     ELSE sj' = 0 /\ NextColor
  /\ UNCHANGED <<scheduler_vars, page_vars>>
  /\ UNCHANGED <<driver, quits, colors, sizes, current_sizes>>

\* Lines 331-334: the finally clause calls driver.quit(), whose own exception
\* is swallowed; then control is back at the caller.
Finally ==
  /\ spc = "finally"
  /\ driver' = "quit"
  /\ quits' = quits + 1
  /\ spc' = "returned"
  /\ UNCHANGED <<scheduler_vars, page_vars>>
  /\ UNCHANGED <<colors, sizes, ci, current_sizes, sj, stock, ret, log>>

NextScan ==
  \/ SetupDriver
  \/ SetupDriverFails
  \/ LoadPage
  \/ Raises
  \/ NoColors
  \/ GetColors
  \/ GetSizes
  \/ ClassPass
  \/ ClickPass
  \/ SelectColor
  \/ ProbeSize
  \/ Finally

\* One call of check_stock_status on some product page.
SpecScan == Init /\ [][NextScan]_vars

\* ------------------------------------------- the functions of one page read
\* The scheduler and check_stock_status before their first call.
ProgramIdle ==
  /\ subscriptions_file = [k \in SubKeys |-> Subscription(k, k # "k4", TRUE)]
  /\ page = [u \in Urls |-> IF u = "u1" THEN RichPage ELSE PlainPage]
  /\ tracked = NotFollowing
  /\ InitLocals

\* Largest number of buttons on the page.
MaxButtons == 2

\* The aria-label or the text of a button; "" also stands for a missing
\* aria-label ("or ''").
ButtonLabels == {"Add to Cart", "Notify Me", "Add to cart or notify me", ""}

\* "'add to cart' in label.lower()" and "'notify me' in label.lower()".
HasAddToCart(label) == label \in {"Add to Cart", "Add to cart or notify me"}
HasNotifyMe(label) == label \in {"Notify Me", "Add to cart or notify me"}

Buttons == [aria_label : ButtonLabels, text : ButtonLabels, disabled : BOOLEAN]

ButtonLists == UNION {[1..n -> Buttons] : n \in 0..MaxButtons}

\* Lines 184-196, the body of "for btn in buttons" for one button: "True" or
\* "False" when it returns, "None" when the loop goes on.
CheckButton(btn) ==
  IF HasAddToCart(btn.aria_label) /\ ~btn.disabled THEN "True"
  ELSE IF HasNotifyMe(btn.aria_label) THEN "False"
  ELSE IF HasAddToCart(btn.text) /\ ~btn.disabled THEN "True"
  ELSE IF HasNotifyMe(btn.text) THEN "False"
  ELSE "None"

\* Lines 179-199: the first button that decides, or None.
RECURSIVE check_button_for_stock(_)
check_button_for_stock(btns) ==
  IF btns = <<>> THEN "None"
  ELSE IF CheckButton(Head(btns)) # "None" THEN CheckButton(Head(btns))
  ELSE check_button_for_stock(Tail(btns))

\* Any buttons on the page, in any order.
InitButton ==
  /\ ProgramIdle
  /\ called = "none"
  /\ color_page = [found |-> "none", items |-> <<>>]
  /\ size_buttons = [found |-> FALSE, values |-> <<>>]
  /\ radio_texts = <<>>
  /\ buttons \in ButtonLists
  /\ button_status = "None"

CheckButtonForStock ==
  /\ called = "none"
  /\ called' = "check_button_for_stock"
  /\ button_status' = check_button_for_stock(buttons)
  /\ UNCHANGED <<scheduler_vars, scraper_vars, color_page, size_buttons, radio_texts,
                 buttons>>

SpecButton == InitButton /\ [][CheckButtonForStock]_vars

\* Largest number of li elements the color selector matches.
MaxItems == 3

\* The aria-label of an li: "None" is the attribute read as None, the others
\* are the strings themselves.
AriaLabels == {"None", "", "  ", "Black", " Black ", "black", "Blue",
               "Select a size", "SIZE2", "Oversize Grey"}

\* aria_label.strip(), for the labels that are strings.
Strip(label) ==
  CASE label = "  " -> ""
    [] label = " Black " -> "Black"
    [] OTHER -> label

\* "any(word in color_lower for word in filter_words)" for a stripped label:
\* some filter word is part of the lower-cased label.
HasFilterWord(color_name) == color_name \in {"Select a size", "SIZE2", "Oversize Grey"}

\* What the page offers get_all_colors: found is "fieldset" when
\* fieldset.qa--colour-selector appears within the wait, "ol" when only some
\* ol does, "none" when both waits time out; items are the aria-labels of the
\* li elements that the selector of that branch matches.
ColorPages ==
  {[found |-> f, items |-> q] :
     f \in {"fieldset", "ol"}, q \in UNION {[1..n -> AriaLabels] : n \in 0..MaxItems}}
  \cup {[found |-> "none", items |-> <<>>]}

\* get_all_colors that keeps a label only if no label seen before it equals
\* it when case is ignored.
RECURSIVE KeepColorsAnyCase(_, _)
KeepColorsAnyCase(items, acc) ==
  IF items = <<>> THEN acc
  ELSE LET aria_label == Head(items)
           color_name == Strip(aria_label)
           lower == IF color_name = "black" THEN "Black" ELSE color_name
       IN KeepColorsAnyCase(Tail(items),
            IF /\ aria_label # "None"
               /\ color_name # ""
               /\ ~HasFilterWord(color_name)
               /\ \A i \in 1..Len(acc) : acc[i] # lower /\ acc[i] # color_name
            THEN Append(acc, color_name) ELSE acc)

\* Lines 62-70, "for item in color_items": colors so far in acc; seen_colors
\* holds the same names.
RECURSIVE KeepColors(_, _)
KeepColors(items, acc) ==
  IF items = <<>> THEN acc
  ELSE LET aria_label == Head(items)
           color_name == Strip(aria_label)
       IN KeepColors(Tail(items),
            IF /\ aria_label # "None"
               /\ color_name # ""
               /\ ~HasFilterWord(color_name)
               /\ \A i \in 1..Len(acc) : acc[i] # color_name
            THEN Append(acc, color_name) ELSE acc)

\* Lines 47-76: the loop over the items found, or [] after the time-outs.
get_all_colors(pg) ==
  IF pg.found = "none" THEN <<>> ELSE KeepColors(pg.items, <<>>)

\* Any page.
InitColors ==
  /\ ProgramIdle
  /\ called = "none"
  /\ color_page \in ColorPages
  /\ size_buttons = [found |-> FALSE, values |-> <<>>]
  /\ radio_texts = <<>>
  /\ buttons = <<>>
  /\ button_status = "None"

GetAllColors ==
  /\ called = "none"
  /\ called' = "get_all_colors"
  /\ colors' = get_all_colors(color_page)
  /\ UNCHANGED <<scheduler_vars, spc, driver, quits, sizes, ci, current_sizes, sj, stock,
                 ret, log, color_page, size_buttons, radio_texts, buttons, button_status>>

SpecColors == InitColors /\ [][GetAllColors]_vars

\* Largest number of size buttons of the size list.
MaxSizeButtons == 3

\* Lines 82-84.
base_sizes == {"XXS", "XS", "S", "M", "L", "XL", "XXL", "2X", "2XL", "3X", "3XL"}
size_order == <<"XXS", "XS", "S", "M", "L", "XL", "XXL", "2X", "2XL", "3X", "3XL">>
size_variations == {"R", "T", "S"}

\* A size string by its parts: base is what stands before the first '-' (the
\* whole string without one), fit what stands after it ("" without one), in
\* upper case; lower tells that the string itself is in lower case, pad that
\* it has white space around it.  SizeStr("M", "T", TRUE, FALSE) is "m-t".
SizeStr(base, fit, lower, pad) == [base |-> base, fit |-> fit, lower |-> lower, pad |-> pad]

\* data-size-value read as None.
NoValue == SizeStr("None", "", FALSE, FALSE)

\* The values a button's data-size-value can have: "M", " M ", "S", "s",
\* "XS", "M-R", "M-T", "M-S", "m-t", "M-X", "M-T-R", "OS", "" and None.
SizeValues ==
  {SizeStr("M", "", FALSE, FALSE), SizeStr("M", "", FALSE, TRUE),
   SizeStr("S", "", FALSE, FALSE), SizeStr("S", "", TRUE, FALSE),
   SizeStr("XS", "", FALSE, FALSE),
   SizeStr("M", "R", FALSE, FALSE), SizeStr("M", "T", FALSE, FALSE),
   SizeStr("M", "S", FALSE, FALSE), SizeStr("M", "T", TRUE, FALSE),
   SizeStr("M", "X", FALSE, FALSE), SizeStr("M", "T-R", FALSE, FALSE),
   SizeStr("OS", "", FALSE, FALSE), SizeStr("", "", FALSE, FALSE), NoValue}

\* The texts a button[role='radio'] can have: "M", " M ", "S", "OS".
RadioTexts ==
  {SizeStr("M", "", FALSE, FALSE), SizeStr("M", "", FALSE, TRUE),
   SizeStr("S", "", FALSE, FALSE), SizeStr("OS", "", FALSE, FALSE)}

\* str.strip() and str.upper().
StripSize(size_str) == [size_str EXCEPT !.pad = FALSE]
Upper(size_str) == [size_str EXCEPT !.lower = FALSE]

\* Lines 86-95.
is_valid_size(size_str) ==
  LET size_upper == StripSize(Upper(size_str))
  IN IF size_upper.fit = "" THEN size_upper.base \in base_sizes
     ELSE IF size_upper.fit \in {"R", "T", "S", "X"}
     THEN size_upper.base \in base_sizes /\ size_upper.fit \in size_variations
     ELSE FALSE

\* size_order.index(base).
IndexOf(base) == (CHOOSE i \in 1..Len(size_order) : size_order[i] = base) - 1

\* The sort key that leaves the fit out.
get_size_sort_key_base(size_str) ==
  LET size_upper == StripSize(Upper(size_str))
  IN (IF size_upper.base \in base_sizes THEN IndexOf(size_upper.base) ELSE 999) * 1000

\* Lines 97-105; split('-')[1] of "M-T-R" is "T".
get_size_sort_key(size_str) ==
  LET size_upper == StripSize(Upper(size_str))
      base_index == IF size_upper.base \in base_sizes THEN IndexOf(size_upper.base)
                    ELSE 999
      variation == IF size_upper.fit = "T-R" THEN "T" ELSE size_upper.fit
  IN IF size_upper.fit # ""
     THEN base_index * 1000 + (CASE variation = "R" -> 0 [] variation = "T" -> 100
                                 [] variation = "S" -> 200 [] OTHER -> 300)
     ELSE base_index * 1000

\* sorted(sizes, key=get_size_sort_key), which is stable: each size goes
\* behind the sizes before it whose key is not larger.
RECURSIVE SortedSizes(_)
SortedSizes(q) ==
  IF q = <<>> THEN <<>>
  ELSE LET front == SortedSizes(SubSeq(q, 1, Len(q) - 1))
           last == q[Len(q)]
           n == Cardinality({i \in 1..Len(front) :
                               get_size_sort_key(front[i]) <= get_size_sort_key(last)})
       IN SubSeq(front, 1, n) \o <<last>> \o SubSeq(front, n + 1, Len(front))

\* Lines 113-119 and 123-127, one of the two loops over the buttons: the
\* valid sizes not seen before, stripped, in button order.
RECURSIVE KeepSizes(_, _)
KeepSizes(values, acc) ==
  IF values = <<>> THEN acc
  ELSE LET size_value == Head(values)
           size == StripSize(size_value)
       IN KeepSizes(Tail(values),
            IF /\ size_value # NoValue
               /\ size.base # "" \/ size.fit # ""
               /\ is_valid_size(size)
               /\ \A i \in 1..Len(acc) : acc[i] # size
            THEN Append(acc, size) ELSE acc)

SizeValueLists == UNION {[1..n -> SizeValues] : n \in 0..MaxSizeButtons}
RadioTextLists == UNION {[1..n -> RadioTexts] : n \in 0..MaxSizeButtons}

\* Any size list, or none within the wait.
InitSizes ==
  /\ ProgramIdle
  /\ called = "none"
  /\ color_page = [found |-> "none", items |-> <<>>]
  /\ size_buttons \in {[found |-> TRUE, values |-> q] : q \in SizeValueLists}
                      \cup {[found |-> FALSE, values |-> <<>>]}
  /\ radio_texts = <<>>
  /\ buttons = <<>>
  /\ button_status = "None"

\* Lines 79-136: after a time-out the empty list; else the sizes of the
\* data-size-value buttons, or without any those of the radio buttons, sorted.
GetAllSizes ==
  /\ called = "none"
  /\ called' = "get_all_sizes"
  /\ IF ~size_buttons.found
     THEN sizes' = <<>> /\ radio_texts' = radio_texts
     ELSE IF KeepSizes(size_buttons.values, <<>>) # <<>>
     THEN /\ sizes' = SortedSizes(KeepSizes(size_buttons.values, <<>>))
          /\ radio_texts' = radio_texts
     ELSE \E texts \in RadioTextLists :
            /\ radio_texts' = texts
            /\ sizes' = SortedSizes(KeepSizes(texts, <<>>))
  /\ UNCHANGED <<scheduler_vars, spc, driver, quits, colors, ci, current_sizes, sj, stock,
                 ret, log, color_page, size_buttons, buttons, button_status>>

SpecSizes == InitSizes /\ [][GetAllSizes]_vars

\* ------------------------------------------------ another writer of the store
\* One subscriber of u1; the other subscriptions exist and are not verified.
InitWriters ==
  /\ subscriptions_file = [k \in SubKeys |-> Subscription(k, k = "k1", TRUE)]
  /\ page = [u \in Urls |-> PlainPage]
  /\ tracked = NotFollowing
  /\ InitLocals
  /\ called = "none"
  /\ NoPageRead

\* Another writer of the subscription store verifies a subscription while
\* the scheduler is at any point of its run: it loads the subscriptions, sets
\* verified and saves them (streamlit_app.py, main, lines 170-179).
VerifyElsewhere ==
  /\ \E k \in SubKeys :
       /\ ~subscriptions_file[k].verified
       /\ subscriptions_file' = [subscriptions_file EXCEPT ![k].verified = TRUE]
  /\ UNCHANGED <<state_files, stock_history, page, pc, subscriptions, products, pi, scan,
                 previous_state, changes, si, calls, scanned, outcome, tracked,
                 reported_again, owner, scraper_vars, page_vars>>

NextWriters ==
  \/ StartRun
  \/ Scan
  \/ ScanFails
  \/ DiffAndSave
  \/ LoadStateFails
  \/ SaveStateFails
  \/ Notify
  \/ Send
  \/ SaveSubscriptions
  \/ SaveSubscriptionsFails
  \/ VerifyElsewhere

SpecWriters == InitWriters /\ [][NextWriters]_vars

\* ============================================================ properties
\* The variants of a flattened map, in its order.
VariantsOf(flat) == [i \in 1..Len(flat) |-> flat[i][1]]

NoRepeat(q) == \A i, j \in 1..Len(q) : q[i] = q[j] => i = j

\* C, the current scan, and P, the loaded previous snapshot of C's shape.
CurFlat == Flat(scan.has_sizes, scan.color_stock, scan.color_size_stock)
PrevFlat == Flat(scan.has_sizes, StateGet(previous_state, "color_stock"),
                 StateGet(previous_state, "color_size_stock"))

\* The variants of C, in C's order, that P holds with value from and C with to.
Flipped(from, to) ==
  VariantsOf(SelectSeq(CurFlat, LAMBDA e : e[2] = to /\ <<e[1], from>> \in Range(PrevFlat)))

Diffed == pc \in {"notify", "send", "save_subs"}

\* C1: once the diff of a product has run, back_in_stock is exactly the
\* variants of both P and C with P[v] = false and C[v] = true, out_of_stock
\* exactly those with P[v] = true and C[v] = false, both in the iteration order
\* of C, no variant twice in a list and none in both lists.
C1_DiffLists ==
  Diffed =>
    /\ changes.back_in_stock = Flipped(FALSE, TRUE)
    /\ changes.out_of_stock = Flipped(TRUE, FALSE)
    /\ NoRepeat(changes.back_in_stock)
    /\ NoRepeat(changes.out_of_stock)
    /\ Range(changes.back_in_stock) \cap Range(changes.out_of_stock) = {}

\* Two sizes of one color came back in stock in one diff.
C1_Witness ==
  /\ pc = "notify"
  /\ scan.has_sizes
  /\ Len(changes.back_in_stock) = 2
  /\ changes.back_in_stock[1][1] = changes.back_in_stock[2][1]


\* The variants a state dict holds, under either of its maps.
EntriesOf(state) ==
  Range(Flat(FALSE, StateGet(state, "color_stock"), <<>>))
  \cup Range(Flat(TRUE, <<>>, StateGet(state, "color_size_stock")))

VariantSet(entries) == {e[1] : e \in entries}

InLists(v) == v \in Range(changes.back_in_stock) \cup Range(changes.out_of_stock)

\* C2: after the diff and save of a scan that returned data, a variant of the
\* scan that the previous snapshot lacks (every variant, when there was no
\* snapshot) is in neither list and is in the state file with its scanned
\* value; a variant of the previous snapshot that the scan lacks is in neither
\* list and is not in the state file.
C2_NewAndDropped ==
  Diffed =>
    LET prev == VariantSet(EntriesOf(previous_state))
        stored == EntriesOf(state_files[state_file])
    IN /\ \A e \in Range(CurFlat) :
            e[1] \notin prev => ~InLists(e[1]) /\ e \in stored
       /\ \A v \in prev :
            v \notin VariantSet(Range(CurFlat)) =>
              ~InLists(v) /\ v \notin VariantSet(stored)

\* A later scan of a product brings a new variant that is in stock and lacks
\* one the snapshot held.
C2_Witness ==
  /\ pc = "notify"
  /\ previous_state.last_checked # "None"
  /\ \E e \in Range(CurFlat) :
       e[2] /\ e[1] \notin VariantSet(EntriesOf(previous_state))
  /\ \E v \in VariantSet(EntriesOf(previous_state)) : v \notin VariantSet(Range(CurFlat))


\* C3: over any sequence of checks, with failing scans, failing state-file
\* reads and writes, failing sends and failing subscription writes, a flip
\* carried in a notification call for a subscriber is not carried again in a
\* call for that subscriber in a later check, unless a scan in between showed
\* the variant with the other value.
C3_ReportedOnce == ~reported_again

\* A later check of the product finds the followed variant still at its
\* reported value and has other changes to send.
C3_Witness ==
  /\ pc = "notify"
  /\ tracked.on
  /\ tracked.url = product_url
  /\ <<tracked.variant, tracked.to>> \in Range(CurFlat)
  /\ changes # NoChanges


\* The verified, active subscriptions of a URL, in file order.
Subscribers(file, url) ==
  SelectSeq(SubOrder, LAMBDA k : file[k].verified /\ file[k].active
                                 /\ file[k].product_url = url)

\* The calls made so far are one per subscriber, in order, each with both
\* full lists, and each called subscriber's last_notified is set.
Dispatched ==
  pc \in {"send", "save_subs"} =>
    /\ changes # NoChanges
    /\ subs = Subscribers(subscriptions_file, product_url)
    /\ Len(calls) = (IF pc = "send" THEN si - 1 ELSE Len(subs))
    /\ \A i \in 1..Len(calls) :
         /\ calls[i].email = subscriptions_file[subs[i]].email
         /\ calls[i].product_url = product_url
         /\ calls[i].back_in_stock = changes.back_in_stock
         /\ calls[i].out_of_stock = changes.out_of_stock
         /\ subscriptions[subs[i]].last_notified = "during"

\* C4: when a product's diff leaves a list non-empty the send loop is entered,
\* send_stock_notification is called exactly once for each subscriber grouped
\* under the product, every call gets both complete lists, the subscriber's
\* last_notified is set after its call, and the subscription write that
\* succeeds stores it.
C4_OneCallEach ==
  [][/\ Dispatched'
     /\ (pc = "notify" /\ changes # NoChanges) => (pc' = "send" /\ si' = 1)
     /\ (pc = "save_subs" /\ outcome'[product_url] = "notified") =>
          \A i \in 1..Len(subs) : subscriptions_file'[subs[i]].last_notified = "during"
    ]_vars

\* Both subscribers of u1 were called, one send failed, with both lists filled.
C4_Witness ==
  /\ pc = "save_subs"
  /\ Len(calls) = 2
  /\ calls[1].sent /\ ~calls[2].sent
  /\ changes.back_in_stock # <<>>
  /\ changes.out_of_stock # <<>>


\* The history records of this check for a variant of the current product.
HistoryOf(v) ==
  {i \in 1..Len(stock_history) :
     /\ stock_history[i].product_url = product_url
     /\ stock_history[i].color = v[1]
     /\ stock_history[i].size = v[2]
     /\ stock_history[i].came_back_in_stock_at = "during"}

\* C5: when the send to one subscriber of a product failed, the send loop
\* has still called every subscriber of the product, the history records of
\* the variants back in stock are appended and the new snapshot is stored.
C5_FailedSendIsolated ==
  (pc = "save_subs" /\ \E i \in 1..Len(calls) : ~calls[i].sent) =>
    /\ Len(calls) = Len(subs)
    /\ \A v \in Range(changes.back_in_stock) : HistoryOf(v) # {}
    /\ EntriesOf(state_files[state_file]) = Range(CurFlat)
    /\ state_files[state_file].last_checked = "during"

\* C6: when the dispatch of a product is over, the history sink holds exactly
\* one record of this check for each variant in back_in_stock, whatever the
\* number of subscribers, and none for any other variant.
C6_HistoryPerFlip ==
  pc = "save_subs" =>
    \A v \in Range(changes.back_in_stock) \cup Range(changes.out_of_stock)
             \cup VariantSet(Range(CurFlat)) :
      Cardinality(HistoryOf(v)) = (IF v \in Range(changes.back_in_stock) THEN 1 ELSE 0)


\* The scan of the current product equals, as a dict, what this state holds.
EqualsScan(state) ==
  /\ state.last_checked # "None"
  /\ state.has_sizes = scan.has_sizes
  /\ EntriesOf(state) = Range(CurFlat)

\* C7: a check whose scan equals the stored snapshot of the product yields two
\* empty lists and rewrites the state file with the same map, has_sizes and
\* keys and a fresh last_checked; it enters no send loop, makes no call and
\* changes no last_notified, in the subscription file or in the loaded
\* subscriptions.  This holds in every check of every run.
C7_UnchangedScan ==
  [][/\ (pc = "diff" /\ pc' = "notify" /\ EqualsScan(state_files[state_file])) =>
          /\ changes' = NoChanges
          /\ EntriesOf(state_files'[state_file]) = EntriesOf(state_files[state_file])
          /\ state_files'[state_file].has_sizes = state_files[state_file].has_sizes
          /\ state_files'[state_file].keys = state_files[state_file].keys
          /\ state_files'[state_file].last_checked = "during"
          /\ \A f \in StatePaths \ {state_file} : state_files'[f] = state_files[f]
     /\ (pc = "notify" /\ EqualsScan(previous_state)) =>
          /\ pc' # "send"
          /\ calls' = <<>>
          /\ outcome'[product_url] = "no_change"
          /\ subscriptions_file' = subscriptions_file
          /\ subscriptions' \in {subscriptions, NoSubscriptions}
    ]_vars

\* A product is scanned again with the stock it had, some of it in stock.
C7_Witness ==
  /\ pc = "notify"
  /\ EqualsScan(previous_state)
  /\ \E e \in Range(CurFlat) : e[2]
  /\ state_files[state_file].last_checked = "during"


\* C8: the check of a product whose scan returned no stock data (no color
\* found, or any other failure of check_stock_status) writes no state file,
\* last_checked included, makes no call, writes no subscription and no
\* history, and goes on with the next product, or ends the run after the last.
C8_NoDataNoWrite ==
  [][(pc = "scan" /\ outcome'[product_url] = "no_data") =>
       /\ state_files' = state_files
       /\ calls' = <<>>
       /\ subscriptions_file' = subscriptions_file
       /\ stock_history' = stock_history
       /\ IF pi < Len(products)
          THEN pc' = "scan" /\ pi' = pi + 1 /\ products' = products
          ELSE pc' = "done"
    ]_vars

\* The scan of u1 returned no data in this check: its snapshot of an earlier
\* check is as it was and u2 is up next.
C8_Witness ==
  /\ outcome["u1"] = "no_data"
  /\ state_files[get_state_file_path("u1")].exists
  /\ state_files[get_state_file_path("u1")].last_checked = "before"
  /\ pc = "scan"
  /\ pi = 2


\* Nothing was dispatched in this check for a product whose state file could
\* not be read or written: no call, no history record, no last_notified set.
NoDispatchAfterStateError ==
  \A u \in Urls :
    outcome[u] = "state_error" =>
      /\ \A i \in 1..Len(calls) : calls[i].product_url # u
      /\ \A i \in 1..Len(stock_history) :
           ~(stock_history[i].product_url = u
             /\ stock_history[i].came_back_in_stock_at = "during")
      /\ \A k \in SubKeys :
           SubUrl[k] = u =>
             /\ subscriptions_file[k].last_notified # "during"
             /\ subscriptions # NoSubscriptions =>
                  subscriptions[k].last_notified # "during"

\* C9: when load_state or save_state fails for a product, no subscriber of
\* the product is called in that check, no history record is appended and no
\* last_notified is changed; the failing step leaves the other products' state
\* files and the subscription file as they are and the run goes on with the
\* next product.
C9_StateFailure ==
  [][/\ NoDispatchAfterStateError'
     /\ (pc = "diff" /\ outcome'[product_url] = "state_error") =>
          /\ \A f \in StatePaths \ {state_file} : state_files'[f] = state_files[f]
          /\ subscriptions_file' = subscriptions_file
          /\ stock_history' = stock_history
          /\ calls' = calls
          /\ IF pi < Len(products)
             THEN /\ pc' = "scan" /\ pi' = pi + 1
                  /\ products' = products /\ subscriptions' = subscriptions
             ELSE pc' = "done"
    ]_vars

\* The state file of u1 failed in this run and the subscriber of u2 was
\* notified in the same run.
C9_Witness ==
  /\ pc = "done"
  /\ outcome["u1"] = "state_error"
  /\ outcome["u2"] = "notified"
  /\ subscriptions_file["k3"].last_notified = "during"


\* The product URLs with at least one verified and active subscription.
EligibleUrls ==
  {subscriptions_file[k].product_url :
     k \in {j \in SubKeys : subscriptions_file[j].verified /\ subscriptions_file[j].active}}

\* No URL is scanned twice in a run, and a run that has returned has scanned
\* and processed each eligible URL once and no other URL.
ScannedOnce ==
  /\ \A u \in Urls : scanned[u] <= 1
  /\ pc = "done" =>
       \A u \in Urls :
         /\ scanned[u] = (IF u \in EligibleUrls THEN 1 ELSE 0)
         /\ outcome[u] # "none" <=> u \in EligibleUrls

\* C10: one run of check_all_subscriptions scans every product URL that has a
\* verified and active subscriber exactly once, and however the processing of
\* a product ends (no data, state-file error, no change, notified,
\* subscription-file error) the run goes on with the next product.
C10_EveryProductOnce ==
  [][/\ ScannedOnce'
     /\ (pc \in {"scan", "diff", "notify", "save_subs"} /\ pi' # pi) =>
          IF pi < Len(products)
          THEN pc' = "scan" /\ pi' = pi + 1 /\ products' = products
          ELSE pc' = "done"
    ]_vars

\* u1, whose first subscription is not verified, failed on its state file and
\* u2 was scanned and notified in the same run.
C10_Witness ==
  /\ pc = "done"
  /\ ~subscriptions_file["k1"].verified
  /\ outcome["u1"] = "state_error"
  /\ outcome["u2"] = "notified"
  /\ scanned = [u \in Urls |-> 1]


\* ---- C11
\* C11: a call of check_stock_status that acquired a browser session has
\* called driver.quit() exactly once when it returns, whichever way it
\* returns, and a call that acquired none has called it not at all; no
\* session is open once control is back at the caller, and quit is never
\* called twice.
C11_SessionReleased ==
  /\ quits <= 1
  /\ (driver = "quit") = (quits = 1)
  /\ spc = "returned" => driver # "open"
  /\ spc \in InTry \cup {"finally"} => driver = "open"

\* A call returned after an exception during probing, its session released.
C11_Witness ==
  /\ spc = "returned"
  /\ driver = "quit"
  /\ quits = 1
  /\ ~ret.ok
  /\ \E i \in 1..Len(log) : log[i].op = "error"
  /\ \E i \in 1..Len(log) : log[i].op = "click"


\* ---- C12
\* Whether the map built so far holds the variant, and its value there.
Recorded(color, size) ==
  IF size = "None" THEN HasKey(stock, color)
  ELSE HasKey(stock, color) /\ HasKey(Get(stock, color), size)

ValueOf(color, size) ==
  IF size = "None" THEN Get(stock, color) ELSE Get(Get(stock, color), size)

\* The events of the log that are about one variant's own control.
Probes(op, color, size) ==
  {i \in 1..Len(log) : log[i].op = op /\ log[i].color = color /\ log[i].size = size}

\* C12: a variant whose by-class check found the no-stock marker (on the
\* color's element or one of its children, or on the size button) is recorded
\* as out of stock, its control is never clicked and the button is never
\* consulted for it.
C12_MarkerDecides ==
  \A i \in 1..Len(log) :
    (log[i].op = "class" /\ log[i].no_stock) =>
      /\ log[i].result = "False"
      /\ Recorded(log[i].color, log[i].size)
      /\ ValueOf(log[i].color, log[i].size) = "False"
      /\ Probes("click", log[i].color, log[i].size) = {}
      /\ Probes("button", log[i].color, log[i].size) = {}

\* A product without sizes returned with one color marked and the other
\* color found in stock by the button.
C12_Witness ==
  /\ spc = "returned"
  /\ ret.ok
  /\ ~ret.has_sizes
  /\ \E i \in 1..Len(log) : log[i].op = "class" /\ log[i].no_stock
  /\ \E i \in 1..Len(log) : log[i].op = "button" /\ log[i].result = "True"


\* ---- C13
\* C13: a by-class check, of a color or of a size, never yields in stock: it
\* yields out of stock or nothing, and nothing whenever the no-stock marker
\* is absent.
C13_ClassNeverInStock ==
  \A i \in 1..Len(log) :
    log[i].op = "class" =>
      /\ log[i].result \in {"False", "None"}
      /\ ~log[i].no_stock => log[i].result = "None"


\* ---- C14
\* The entries of the map built so far, as <<color, size, value>>.
Entries ==
  IF sizes = <<>>
  THEN {<<stock[i][1], "None", stock[i][2]>> : i \in 1..Len(stock)}
  ELSE UNION {{<<stock[i][1], stock[i][2][j][1], stock[i][2][j][2]>> :
                 j \in 1..Len(stock[i][2])} : i \in 1..Len(stock)}

\* Some check of the variant gave an answer: its by-class check, or the
\* button after its control, or its color for the key 'ALL', was clicked.
Conclusive(color, size) ==
  \E i \in 1..Len(log) :
    /\ log[i].op \in {"class", "button"}
    /\ log[i].color = color
    /\ log[i].size = size
    /\ log[i].result # "None"

\* C14: every value of the map is True or False, never None, and the value
\* of a variant for which neither the by-class check nor the button gave an
\* answer is False.
C14_DefiniteValues ==
  \A e \in Entries :
    /\ e[3] \in {"True", "False"}
    /\ ~Conclusive(e[1], e[2]) => e[3] = "False"

\* A returned map with a size whose by-class check and button both gave no
\* answer, and a size that is in stock.
C14_Witness ==
  /\ spc = "returned"
  /\ ret.ok
  /\ \E e \in Entries :
       /\ e[3] = "False"
       /\ Probes("button", e[1], e[2]) # {}
       /\ ~Conclusive(e[1], e[2])
  /\ \E e \in Entries : e[3] = "True"


\* ---- C15
\* C15: in a map that is returned, every variant whose click failed is
\* present with the value False, and every color of a product with sizes
\* whose selecting click failed is present as a key.
C15_UnreachableIsFalse ==
  (spc = "returned" /\ ret.ok) =>
    \A i \in 1..Len(log) :
      /\ (log[i].op = "click" /\ log[i].result = "False") =>
           /\ Recorded(log[i].color, log[i].size)
           /\ ValueOf(log[i].color, log[i].size) = "False"
      /\ (log[i].op = "select" /\ log[i].result = "False") =>
           HasKey(stock, log[i].color)


\* ---- C16
\* The verified and active subscriptions of a URL in a subscription dict.
EligibleFor(file, url) ==
  {k \in SubKeys : file[k].verified /\ file[k].active /\ file[k].product_url = url}

\* C16: a URL is scanned only if it has a verified and active subscription;
\* the subscribers of the product being checked are exactly the verified and
\* active subscriptions of its URL as loaded at the start of the run; only
\* they are called, and all of them once the send loop is through.
C16_OnlyEligible ==
  /\ \A u \in Urls : scanned[u] > 0 => EligibleFor(subscriptions_file, u) # {}
  /\ pc \in {"scan", "diff", "notify", "send", "save_subs"} =>
       Range(subs) = EligibleFor(subscriptions, product_url)
  /\ pc \in {"send", "save_subs"} =>
       /\ \A i \in 1..Len(calls) :
            \E k \in EligibleFor(subscriptions, product_url) :
              calls[i].email = subscriptions[k].email
       /\ pc = "save_subs" =>
            {calls[i].email : i \in 1..Len(calls)} =
              {subscriptions[k].email : k \in EligibleFor(subscriptions, product_url)}

\* A run is over in which u1, with one subscriber not verified, was notified
\* to its other subscriber alone, and u2, whose only subscriber is verified
\* but deactivated, was not scanned.
C16_Witness ==
  /\ pc = "done"
  /\ ~subscriptions_file["k1"].verified /\ subscriptions_file["k1"].active
  /\ subscriptions_file["k3"].verified /\ ~subscriptions_file["k3"].active
  /\ outcome["u1"] = "notified"
  /\ Len(calls) = 1
  /\ calls[1].email = "b"
  /\ scanned["u1"] = 1
  /\ scanned["u2"] = 0


\* ---- C17
\* C17: a subscriber whose send failed in this run does not have its
\* last_notified in the subscription file set by this run.
C17_FailedSendKeepsStamp ==
  \A i \in 1..Len(calls) :
    ~calls[i].sent =>
      subscriptions_file[get_subscription_key(calls[i].email, calls[i].product_url)]
        .last_notified # "during"


\* ---- C18
\* C18 as stated: the state file of the product being checked is written
\* only after the dispatch has run, so while a send loop is still to come or
\* under way it does not hold this run's snapshot.
C18_SnapshotAfterDispatch ==
  (pc \in {"notify", "send"} /\ changes # NoChanges) =>
    state_files[state_file].last_checked # "during"

\* C18, amended: the steps of one product go scan, diff together with the
\* state-file write, then dispatch: when the send loop is entered the state
\* file holds this run's scan, and no step of the dispatch writes a state file.
C18_WriteBeforeDispatch ==
  [][/\ pc = "scan" => pc' \in {"scan", "diff", "done"}
     /\ pc = "diff" => pc' \in {"scan", "notify", "done"}
     /\ pc = "notify" => pc' \in {"scan", "send", "done"}
     /\ pc' \in {"send", "save_subs"} =>
          /\ state_files'[state_file'].last_checked = "during"
          /\ EqualsScan(state_files[state_file])'
     /\ pc \in {"notify", "send", "save_subs"} => state_files' = state_files
    ]_vars

\* The send loop has called its first subscriber and the state file already
\* holds this run's scan.
C18_Witness ==
  /\ pc = "send"
  /\ Len(calls) = 1
  /\ changes.back_in_stock # <<>>
  /\ state_files[state_file].last_checked = "during"
  /\ previous_state.last_checked = "before"


\* ---- C19
\* C19: the check of a product reads as its previous state, and overwrites,
\* only a state file that no check of another product URL has written.
C19_OwnSnapshot ==
  [][(pc = "diff" /\ pc' = "notify") => owner[state_file] \in {"none", product_url}]_vars


\* ---- C20
\* The sizes get_all_sizes returned after the color was selected.
SizesAfter(color) ==
  log[CHOOSE i \in 1..Len(log) : log[i].op = "sizes" /\ log[i].color = color].result

\* The keys of a dict, in its order.
Keys(d) == [i \in 1..Len(d) |-> d[i][1]]

\* The colors whose selecting click succeeded, in the order of the list that
\* get_all_colors returned.
Selected ==
  SelectSeq(colors, LAMBDA c : \E i \in 1..Len(log) :
                                 log[i].op = "select" /\ log[i].color = c
                                 /\ log[i].result = "True")

\* Each size was probed by the tiers: its by-class check ran, and its click
\* or the button was tried only after a by-class check without answer.
Tiered(color, size) ==
  /\ \E i \in Probes("class", color, size) :
       \A j \in Probes("click", color, size) \cup Probes("button", color, size) :
         i < j /\ log[i].result = "None"
  /\ \A j \in Probes("button", color, size) :
       \E i \in Probes("click", color, size) : i < j /\ log[i].result = "True"

\* C20 as stated: in the returned map of a product with sizes, the size keys
\* under each color are the sizes found after that color was selected, in
\* that order.
C20_KeysAreSizesFound ==
  (spc = "returned" /\ ret.ok /\ ret.has_sizes) =>
    \A i \in 1..Len(stock) : Keys(stock[i][2]) = SizesAfter(stock[i][1])

\* C20, amended: the colors of the returned map are the selected colors in
\* color-list order; under a color whose own size list is not empty the keys
\* are that list in its order, whatever the page-level list was, each size
\* probed by the tiers; under a color whose own size list is empty the one
\* key is 'ALL', with the button's answer.
C20_KeysPerColor ==
  (spc = "returned" /\ ret.ok /\ ret.has_sizes) =>
    /\ Keys(stock) = Selected
    /\ \A i \in 1..Len(stock) :
         LET color == stock[i][1]
             found == SizesAfter(color)
         IN IF found = <<>>
            THEN /\ Keys(stock[i][2]) = <<"ALL">>
                 /\ Probes("button", color, "ALL") # {}
                 /\ Probes("click", color, "ALL") = {}
            ELSE /\ Keys(stock[i][2]) = found
                 /\ \A j \in 1..Len(found) : Tiered(color, found[j])

\* A returned map of two colors: one with a size the page-level list lacks,
\* the other with no size of its own.
C20_Witness ==
  /\ spc = "returned"
  /\ ret.ok
  /\ Len(stock) = 2
  /\ Len(sizes) = 1
  /\ Keys(stock[1][2]) = <<"S", "M">>
  /\ Keys(stock[2][2]) = <<"ALL">>


\* ---- C21
\* The orders of n things.
Orders(n) == {f \in [1..n -> 1..n] : \A i, j \in 1..n : f[i] = f[j] => i = j}

\* C21: what check_button_for_stock returned is what it returns for the
\* same buttons in every other order.
C21_OrderIndependent ==
  called = "check_button_for_stock" =>
    \A f \in Orders(Len(buttons)) :
      check_button_for_stock([i \in 1..Len(buttons) |-> buttons[f[i]]]) = button_status


\* ---- C22
\* The labels that qualify: strings that are not blank and hold no filter
\* word, trimmed.
Qualifies(label) ==
  label # "None" /\ Strip(label) # "" /\ ~HasFilterWord(Strip(label))

BaseRank(size) == CHOOSE i \in 1..Len(size_order) : size_order[i] = Upper(size).base
FitRank(size) ==
  CASE Upper(size).fit = "R" -> 1 [] Upper(size).fit = "T" -> 2 [] Upper(size).fit = "S" -> 3

MapKey(has_sizes) == IF has_sizes THEN "color_size_stock" ELSE "color_stock"

\* C24: when the state file of the product holds a snapshot of the other
\* shape than the scan (has_sizes differs), the diff yields two empty lists
\* and the file written holds has_sizes and the map of the scan and no map
\* of the old shape; the check then enters no send loop and makes no call.
C24_ShapeChange ==
  [][/\ (/\ pc = "diff" /\ pc' = "notify"
         /\ state_files[state_file].exists
         /\ state_files[state_file].has_sizes # scan.has_sizes) =>
          /\ changes' = NoChanges
          /\ state_files'[state_file].has_sizes = scan.has_sizes
          /\ state_files'[state_file].keys = {MapKey(scan.has_sizes)}
          /\ StateGet(state_files'[state_file], MapKey(~scan.has_sizes)) = <<>>
          /\ StateGet(state_files'[state_file], MapKey(scan.has_sizes)) =
               (IF scan.has_sizes THEN scan.color_size_stock ELSE scan.color_stock)
     /\ (/\ pc = "notify"
         /\ previous_state.last_checked # "None"
         /\ previous_state.has_sizes # scan.has_sizes) =>
          /\ pc' # "send"
          /\ calls' = <<>>
          /\ outcome'[product_url] = "no_change"
          /\ subscriptions_file' = subscriptions_file
    ]_vars

\* A product stored with sizes, Red out of stock in some size, was scanned
\* without sizes and Red in stock; the file now holds the colors only.
C24_Witness ==
  /\ pc = "notify"
  /\ previous_state.last_checked = "before"
  /\ previous_state.has_sizes
  /\ ~scan.has_sizes
  /\ \E e \in EntriesOf(previous_state) : e[1][1] = "Red" /\ ~e[2]
  /\ \E e \in Range(CurFlat) : e[1][1] = "Red" /\ e[2]
  /\ state_files[state_file].keys = {"color_stock"}


\* ---- C25
\* C25: the write of the subscriptions at the end of a product's dispatch
\* changes no field of any subscription in the store but last_notified.
C25_WriteKeepsOthers ==
  [][(pc = "save_subs" /\ pc' # "save_subs") =>
       \A k \in SubKeys :
         [subscriptions_file'[k] EXCEPT !.last_notified = "None"] =
           [subscriptions_file[k] EXCEPT !.last_notified = "None"]]_vars


====
